---------------------------- MODULE Spec2Model ----------------------------
(***************************************************************************)
(* A model of the trimbox firmware (trimbox.ino): the ADS1115 driver       *)
(* (readConfig, writeConfig, readAdcI, readAdc), the sticky window filter  *)
(* (moveWindow) and the button matrix scanner (initMatrix, scanMatrix).    *)
(* The build modelled is the shipped one, DEBUG == 0, on a board whose int *)
(* is 16 bits wide (the arithmetic of moveWindow is done modulo 2^16).     *)
(*                                                                         *)
(* humanConfigz and bitConfigz are modelled as a DEBUG build has them.     *)
(*                                                                         *)
(* The specifications share the variables:                                 *)
(*   FilterSpec  the filter step of readAdc applied to bounded anchors     *)
(*               and samples;                                              *)
(*   AdcSpec     initAdc, then the acquisition stage of every loop()       *)
(*               cycle, one bus transaction per step;                      *)
(*   FairAdcSpec AdcSpec with the processor never halting;                 *)
(*   OffSpec     FilterSpec for a build with WINDOW_SIZE 0;                *)
(*   WordSpec    the configuration write of readAdcI over every mirror;    *)
(*   ConvSpec    the conversion read over every pair of bytes;             *)
(*   CodecSpec   humanConfigz, bitConfigz and writeConfig over every word; *)
(*   MatrixSpec  initMatrix, then scanMatrix between switch operations;    *)
(*   TableSpec   MatrixSpec over several permutation tables, with the      *)
(*               value scanMatrix returns;                                 *)
(*   IndexSpec   readAdcI called with every 8-bit index;                   *)
(*   SetupSpec   setup() as a whole, then the first scan of loop();        *)
(*   NullSpec    MatrixSpec and initAdc, with calls of the entry points on *)
(*               a NULL pointer in between;                                *)
(*   LoopSpec    loop() cycle after cycle, all its stages;                 *)
(*   AxisSpec    LoopSpec on a bus that never fails, an axis moving;       *)
(*   ColdSpec    loop() without end, no switch operated, the bus failing   *)
(*               at the conversion request or the diagnostic read or not   *)
(*               at all.                                                   *)
(***************************************************************************)
EXTENDS Integers, Sequences, FiniteSets, TLC

VARIABLES
    adc,          \* ads1115_state: [mask, config, raw, cur]
    dev,          \* the ADS1115's configuration register (low 15 bits)
    pc,           \* position of the processor
    idx,          \* readAdc's loop variable i, also readAdcI's idx
    err,          \* the value the last call returned
    entry,        \* adc's raw and cur when the running (or last) call was entered
    bus,          \* per channel, the bus transactions of the running (or last)
                  \* readAdc: "write" (acknowledged), "nack" (a write not
                  \* acknowledged), "poll", "conv"
    matrix_state, \* matrix_state_t.s: the stored level of every button code
    wline,        \* level driven on every write (row) pin
    closed,       \* positions whose switch is closed
    table,        \* pins.codes as the scanner is given it
    events,       \* what the last scanMatrix passed to its callback, in order
    seen,         \* the level the last scanMatrix read at every position
    driven,       \* the levels on the write pins when the last scanMatrix
                  \* read each position
    pinmode,      \* the mode of the matrix pins: "input" (every pin INPUT,
                  \* as reset leaves them) or "matrix" (write pins OUTPUT,
                  \* read pins INPUT_PULLUP)
    joystick,     \* the Joystick_ object: button, the state setButton has
                  \* set for every code, and sent, the button states that
                  \* the last sendState delivered
    before,       \* matrix_state as it was when the last scanMatrix was entered
    changed,      \* loop()'s static flag, set by scanMatrix
    polls,        \* readAdcI's poll counter i, as far as the code reads it
    wire,         \* the bytes of the last configuration write, as passed to
                  \* Wire.write after the register selector
    rx,           \* the bytes Wire.read delivered in the last conversion read
    buf,          \* humanConfigz's static char buf[26]
    wrote,        \* the indices of buf the last humanConfigz wrote to
    bits,         \* bitConfigz's static char buf[26]
    nulled,       \* the entry point that last returned at its NULL check
    cycle,        \* the stages the running (or last) loop() went through, in
                  \* order: "readAdc", "readConfig", "setAxes", "scanMatrix",
                  \* "report" and, when the report is sent, "sendState"
    counter       \* loop()'s static counter

vars == <<adc, dev, pc, idx, err, entry, bus, matrix_state, wline, closed,
          table, events, seen, driven, pinmode, joystick, before, changed,
          polls,
          wire, rx, buf,
          wrote,
          bits, nulled, cycle, counter>>

adcVars == <<adc, dev, idx, err, entry, bus, polls, wire, rx>>
matVars ==
    <<matrix_state, wline, closed, table, events, seen, driven, pinmode,
      joystick, before, changed>>
loopVars == <<cycle, counter>>
dbgVars == <<buf, wrote, bits, nulled>>

---------------------------------------------------------------------------
(* Fixed-width integers.                                                   *)

UINT16_MAX == 2^16 - 1
INT16_MIN == -(2^15)
INT16_MAX == 2^15 - 1

\* Conversion to uint16_t: the value modulo 2^16.
U16(x) == ((x % 2^16) + 2^16) % 2^16

\* Conversion of a 16-bit word to int16_t (two's complement).
S16(u) == IF U16(u) >= 2^15 THEN U16(u) - 2^16 ELSE U16(u)

\* Bit k of word w, and the field of `width` bits whose lowest bit is k.
Bit(w, k) == (w \div 2^k) % 2
Field(w, k, width) == (w \div 2^k) % 2^width

---------------------------------------------------------------------------
(* The window filter.                                                      *)

WINDOW_SIZE == 3

\* WINDOW_L without its test of WINDOW_SIZE.
WindowLUnguarded(n) == -(IF n # 0 THEN 2^(n - 1) ELSE 0) + 1

WindowH(n) == IF n # 0 THEN 2^(n - 1) ELSE 0
WindowL(n) == IF n # 0 THEN -WindowH(n) + 1 ELSE 0
WINDOW_H == WindowH(WINDOW_SIZE)
WINDOW_L == WindowL(WINDOW_SIZE)

\* moveWindowW with the two offsets exchanged in the results.
moveWindowSwapped(lo, hi, prev, next) ==
    IF U16(0 - lo) < prev /\ next < U16(prev + lo)
    THEN U16(next - hi)
    ELSE IF U16(UINT16_MAX - hi) > prev /\ next > U16(prev + hi)
         THEN U16(next - lo)
         ELSE prev

\* moveWindowW with prev written for next in the lowering branch.
moveWindowPrevSlip(lo, hi, prev, next) ==
    IF U16(0 - lo) < prev /\ next < U16(prev + lo)
    THEN U16(prev - lo)
    ELSE IF U16(UINT16_MAX - hi) > prev /\ next > U16(prev + hi)
         THEN U16(next - hi)
         ELSE prev

\* moveWindow with the offsets as parameters: prev and next are uint16_t,
\* the offsets are int, and every sum is taken modulo 2^16.
moveWindowW(lo, hi, prev, next) ==
    IF U16(0 - lo) < prev /\ next < U16(prev + lo)
    THEN U16(next - lo)
    ELSE IF U16(UINT16_MAX - hi) > prev /\ next > U16(prev + hi)
         THEN U16(next - hi)
         ELSE prev

moveWindow(prev, next) == moveWindowW(WINDOW_L, WINDOW_H, prev, next)

\* adc->cur[i] = moveWindow(adc->cur[i], adc->raw[i]) on the stored int16_t.
filterStep(a, ch) ==
    [a EXCEPT !.cur[ch] = S16(moveWindow(U16(a.cur[ch]), U16(a.raw[ch])))]

---------------------------------------------------------------------------
(* The state after construction (the globals as the C++ start-up leaves    *)
(* them) and the world around the board.                                   *)

Channels == 0 .. 3
LOW == 0
HIGH == 1
MAT_W == 3
MAT_H == 3
Rows == 0 .. (MAT_H - 1)
Cols == 0 .. (MAT_W - 1)
Positions == Rows \X Cols
Codes == 0 .. (MAT_H * MAT_W - 1)

\* The channel enable masks the sketches are built with: 0b1111 (trimbox.ino),
\* one channel left out, and 0b0011 (the i2c test sketch).
Masks == {15, 11, 3}

\* ads1115_state adc {.addr = ADDR, .mask = ...}: the other members are zero.
adcInit(m) ==
    [mask |-> m, config |-> 0,
     raw |-> [c \in Channels |-> 0], cur |-> [c \in Channels |-> 0]]

\* What the device's configuration register may hold when the sketch starts:
\* its reset value, or what a previous run of the sketch left in it.
DevReset == 5 * 2^8 + 8 * 2^4 + 3
DevPowerOn == {DevReset, 7 * 2^12 + 3 * 2^8 + 12 * 2^4 + 3}

\* The level on the write pins before anything is written to them: the
\* port latch as reset left it, LOW on some boards and HIGH on others.
PortLatch == {[r \in Rows |-> LOW], [r \in Rows |-> HIGH]}

noBus == [c \in Channels |-> {}]

\* Joystick_ joystick as constructed: no button set, nothing sent.
released == [button |-> [c \in Codes |-> 0], sent |-> [c \in Codes |-> 0]]

\* pins.codes: the logical code of every (write pin, read pin) position.
codes == <<<<3, 2, 8>>, <<6, 7, 0>>, <<4, 5, 1>>>>

\* static char buf[26], zero-initialised; NUL stands for '\0'.
NUL == "\\0"
BufSize == 26
noText == [k \in 0 .. (BufSize - 1) |-> NUL]

\* The samples and the filtered values of a, as kept in entry.
snapshot(a) == [raw |-> a.raw, cur |-> a.cur]

Init ==
    /\ \E m \in Masks : adc = adcInit(m)
    /\ dev \in DevPowerOn
    /\ pc = "setup"
    /\ idx = 0
    /\ err = 0
    /\ entry = snapshot(adc)
    /\ bus = noBus
    /\ polls = 0
    /\ matrix_state = [c \in Codes |-> 0]
    /\ wline \in PortLatch
    /\ closed = {}
    /\ table = codes
    /\ events = <<>>
    /\ seen = [p \in Positions |-> HIGH]
    /\ driven = [p \in Positions |-> wline]
    /\ joystick = released
    /\ pinmode = "input"
    /\ before = matrix_state
    /\ changed = FALSE
    /\ wire = <<>>
    /\ rx = <<>>
    /\ buf = noText
    /\ wrote = {}
    /\ bits = noText
    /\ nulled = ""
    /\ cycle = <<>>
    /\ counter = 0

---------------------------------------------------------------------------
(* FilterSpec: the filter step of readAdc on bounded anchors and samples.  *)

FilterSpan == 5
Near(c) == {v \in (c - FilterSpan) .. (c + FilterSpan) : INT16_MIN <= v /\ v <= INT16_MAX}
FilterVals == Near(INT16_MIN) \cup Near(0) \cup Near(INT16_MAX) \cup {50, 53, 96, 99, 100}

\* The globals as constructed, about to filter channel idx; every other
\* anchor is reached from 0 by the samples fed.
FilterInit ==
    /\ adc = adcInit(15)
    /\ dev = 0
    /\ pc = "filter"
    /\ idx \in Channels
    /\ err = 0
    /\ entry = snapshot(adc)
    /\ bus = noBus
    /\ polls = 0
    /\ matrix_state = [c \in Codes |-> 0]
    /\ wline = [r \in Rows |-> LOW]
    /\ closed = {}
    /\ table = codes
    /\ events = <<>>
    /\ seen = [p \in Positions |-> HIGH]
    /\ driven = [p \in Positions |-> wline]
    /\ joystick = released
    /\ pinmode = "input"
    /\ before = matrix_state
    /\ changed = FALSE
    /\ wire = <<>>
    /\ rx = <<>>
    /\ buf = noText
    /\ wrote = {}
    /\ bits = noText
    /\ nulled = ""
    /\ cycle = <<>>
    /\ counter = 0

\* One pass of readAdc's loop body for channel idx whose acquisition
\* stored the sample r: adc->cur[i] = moveWindow(adc->cur[i], adc->raw[i]).
\* entry is adc between the two, when moveWindow is called.
FilterFeed(r) ==
    /\ pc \in {"filter", "filtered"}
    /\ pc' = "filtered"
    /\ entry' = snapshot([adc EXCEPT !.raw[idx] = r])
    /\ adc' = filterStep([adc EXCEPT !.raw[idx] = r], idx)
    /\ UNCHANGED <<dev, idx, err, bus, polls, wire, rx>>
    /\ UNCHANGED loopVars
    /\ UNCHANGED matVars
    /\ UNCHANGED dbgVars

FilterNext == \E r \in FilterVals : FilterFeed(r)

FilterSpec == FilterInit /\ [][FilterNext]_vars

---------------------------------------------------------------------------
(* OffSpec: the filter step of a build with #define WINDOW_SIZE 0.         *)

\* adc->cur[i] = moveWindow(adc->cur[i], adc->raw[i]) when WINDOW_SIZE is n.
filterStepN(n, a, ch) ==
    [a EXCEPT !.cur[ch] =
        S16(moveWindowW(WindowL(n), WindowH(n), U16(a.cur[ch]), U16(a.raw[ch])))]

\* FilterFeed in that build.
OffFeed(r) ==
    /\ pc \in {"filter", "filtered"}
    /\ pc' = "filtered"
    /\ entry' = snapshot([adc EXCEPT !.raw[idx] = r])
    /\ adc' = filterStepN(0, [adc EXCEPT !.raw[idx] = r], idx)
    /\ UNCHANGED <<dev, idx, err, bus, polls, wire, rx>>
    /\ UNCHANGED loopVars
    /\ UNCHANGED matVars
    /\ UNCHANGED dbgVars

OffNext == \E r \in FilterVals : OffFeed(r)

OffSpec == FilterInit /\ [][OffNext]_vars

---------------------------------------------------------------------------
(* AdcSpec: the ADS1115 driver, one bus transaction per step.              *)
(*   pc = "setup"  setup() is about to call initAdc                        *)
(*   pc = "idle"   loop() is about to call readAdc                         *)
(*   pc = "chan"   readAdc is about to call readAdcI(adc, idx)             *)
(*   pc = "poll"   readAdcI is about to call checkConversionReady          *)
(*   pc = "conv"   readAdcI is about to read the conversion register       *)
(*   pc = "ret"    readAdc has returned err to loop()                      *)

\* What Wire.endTransmission returns: 0, or a nonzero code (2: the address
\* was not acknowledged).
WireErrors == {2}
WireResults == {0} \cup WireErrors

\* Whether Wire.available() reports the 2 bytes requested.
Available == {TRUE, FALSE}

\* writeConfig and initAdc end without a return statement: the caller reads
\* whatever the return register holds.
Indeterminate == {0, 1}

\* The byte pairs the conversion register delivers.
ConvBytes == {<<0, 100>>, <<0, 50>>}

\* The poll counter is read only as i % 4 (and only when DEBUG_TIMING).
PollCycle == 4

\* w | (1 << k)
OrBit(w, k) == IF Bit(w, k) = 1 THEN w ELSE w + 2^k

\* The configuration initAdc writes:
\* (0b001 << 9) | (0b1 << 8) | (0b110 << 5) | (0b11 << 0).
startupConfig == 1 * 2^9 + 1 * 2^8 + 6 * 2^5 + 3

\* readAdcI's word without config &= ~(0b111 << 12): the new mux bits are
\* ORed onto the old ones.
conversionWordKeepMux(config, ch) ==
    LET old == Field(config, 12, 3)
        new == 4 + ch
        mux == 4 * ((Bit(old, 2) + Bit(new, 2) + 1) \div 2)
               + 2 * ((Bit(old, 1) + Bit(new, 1) + 1) \div 2)
               + ((Bit(old, 0) + Bit(new, 0) + 1) \div 2)
    IN OrBit((config - old * 2^12) + mux * 2^12, 15)

\* The word readAdcI builds from the mirrored configuration for channel ch:
\* mux cleared, 0b1 << 14, ch << 12, 0b1 << 15.
conversionWord(config, ch) ==
    OrBit((config - Field(config, 12, 3) * 2^12) + 2^14 + ch * 2^12, 15)

\* The index limited to 3 ("Clamp to 0-3") instead of masked.
clampIdxSaturate(i) == IF i > 3 THEN 3 ELSE i

\* readAdcI: idx &= 0b11, then the test of the mask.
clampIdx(i) == i % 4

\* The mask test with its sense inverted.
enabledInverted(mask, ch) == Bit(mask, clampIdx(ch)) = 0

enabled(mask, ch) == Bit(mask, clampIdx(ch)) = 1

\* The two bytes taken in the other order.
assembleSwapped(first, second) == S16(second * 2^8 + first)

\* The int16_t assembled from the two bytes read: first << 8 | second.
assemble(first, second) == S16(first * 2^8 + second)

logBus(ch, op) == [bus EXCEPT ![ch] = @ \cup {op}]

\* readAdc's loop: a channel done without error, on to the next or return 0.
nextChannel ==
    IF idx + 1 < 4
    THEN /\ idx' = idx + 1 /\ pc' = "chan" /\ err' = err
    ELSE /\ idx' = idx /\ pc' = "ret" /\ err' = 0

\* readAdc keeping the error and going on with the next channel.
returnErrorLate(e) ==
    /\ err' = e
    /\ IF idx + 1 < 4
       THEN idx' = idx + 1 /\ pc' = "chan"
       ELSE idx' = idx /\ pc' = "ret"

\* readAdcI returned e # 0, and readAdc returns it at once.
returnError(e) ==
    /\ pc' = "ret"
    /\ err' = e
    /\ idx' = idx

\* Wire.write(0xff & (config >> 8)); Wire.write(0xff & (config >> 0)).
wireBytes(config) == <<(config \div 2^8) % 2^8, config % 2^8>>

\* writeConfig storing the mirror before the bus has answered.
writeConfigCommitFirst(config, ack, ret) ==
    IF ack # 0
    THEN [config |-> config % 2^15, dev |-> dev, err |-> ack]
    ELSE [config |-> config % 2^15, dev |-> config % 2^15, err |-> ret]

\* writeConfig(adc, config) with the bus answering ack: on failure the
\* error is returned and the mirror is left; on success the mirror takes the
\* low 15 bits (and so does the device), and the value returned is
\* indeterminate.
writeConfig(config, ack, ret) ==
    IF ack # 0
    THEN [config |-> adc.config, dev |-> dev, err |-> ack]
    ELSE [config |-> config % 2^15, dev |-> config % 2^15, err |-> ret]

\* readConfig(adc) with the bus answering ack, avail, and the device
\* reporting ready bit rdy over its register.
readConfig(ack, avail, rdy) ==
    IF ack # 0
    THEN [config |-> adc.config, err |-> ack]
    ELSE IF avail
         THEN [config |-> rdy * 2^15 + dev, err |-> 0]
         ELSE [config |-> adc.config, err |-> 2]

\* setup(): err = initAdc(&adc). initAdc drops what writeConfig returns and
\* ends without a return statement itself.
InitAdc ==
    /\ pc = "setup"
    /\ \E ack \in WireResults, ret \in Indeterminate :
         LET w == writeConfig(startupConfig, ack, ret) IN
         /\ adc' = [adc EXCEPT !.config = w.config]
         /\ dev' = w.dev
    /\ wire' = wireBytes(startupConfig)
    /\ err' \in Indeterminate
    /\ pc' = "idle"
    /\ UNCHANGED <<idx, entry, bus, polls, rx>>
    /\ UNCHANGED loopVars
    /\ UNCHANGED matVars
    /\ UNCHANGED dbgVars

\* loop(): err = readAdc(&adc), up to the first readAdcI.
ReadAdcEnter ==
    /\ pc = "idle"
    /\ pc' = "chan"
    /\ idx' = 0
    /\ err' = 0
    /\ entry' = snapshot(adc)
    /\ bus' = noBus
    /\ cycle' = <<"readAdc">>
    /\ UNCHANGED <<adc, dev, polls, wire, rx, counter>>
    /\ UNCHANGED matVars
    /\ UNCHANGED dbgVars

\* readAdcI(adc, idx) up to the poll loop: a masked channel returns 0 at
\* once (and readAdc filters it); otherwise the conversion is requested.
StartChannel ==
    /\ pc = "chan"
    /\ IF ~enabled(adc.mask, idx)
       THEN /\ adc' = filterStep(adc, clampIdx(idx))
            /\ nextChannel
            /\ UNCHANGED <<dev, bus, polls, wire>>
       ELSE \E ack \in WireResults, ret \in Indeterminate :
              LET w == writeConfig(conversionWord(adc.config, clampIdx(idx)), ack, ret) IN
              /\ adc' = [adc EXCEPT !.config = w.config]
              /\ dev' = w.dev
              /\ wire' = wireBytes(conversionWord(adc.config, clampIdx(idx)))
              /\ bus' = logBus(clampIdx(idx), IF ack # 0 THEN "nack" ELSE "write")
              /\ IF w.err # 0
                 THEN returnError(w.err) /\ polls' = polls
                 ELSE /\ pc' = "poll" /\ idx' = idx /\ err' = err
                      /\ polls' = 0
    /\ UNCHANGED <<entry, rx>>
    /\ UNCHANGED loopVars
    /\ UNCHANGED matVars
    /\ UNCHANGED dbgVars

\* The poll loop leaving for the conversion read whatever the ready bit.
PollNoWait ==
    /\ pc = "poll"
    /\ \E ack \in WireResults, avail \in Available, rdy \in {0, 1} :
         LET c == readConfig(ack, avail, rdy) IN
         /\ adc' = [adc EXCEPT !.config = c.config]
         /\ bus' = logBus(clampIdx(idx), "poll")
         /\ IF c.err # 0
            THEN returnError(c.err) /\ polls' = polls
            ELSE /\ pc' \in {"conv", "poll"} /\ idx' = idx /\ err' = err
                 /\ polls' = IF pc' = "conv" THEN polls ELSE (polls + 1) % PollCycle
    /\ UNCHANGED <<dev, entry, wire, rx>>
    /\ UNCHANGED loopVars
    /\ UNCHANGED matVars
    /\ UNCHANGED dbgVars

\* One turn of readAdcI's poll loop: checkConversionReady, then break,
\* return, or delay(1) and ++i.
Poll ==
    /\ pc = "poll"
    /\ \E ack \in WireResults, avail \in Available, rdy \in {0, 1} :
         LET c == readConfig(ack, avail, rdy) IN
         /\ adc' = [adc EXCEPT !.config = c.config]
         /\ bus' = logBus(clampIdx(idx), "poll")
         /\ IF c.err # 0
            THEN returnError(c.err) /\ polls' = polls
            ELSE IF Bit(c.config, 15) = 1
                 THEN /\ pc' = "conv" /\ idx' = idx /\ err' = err /\ polls' = polls
                 ELSE /\ pc' = "poll" /\ idx' = idx /\ err' = err
                      /\ polls' = (polls + 1) % PollCycle
    /\ UNCHANGED <<dev, entry, wire, rx>>
    /\ UNCHANGED loopVars
    /\ UNCHANGED matVars
    /\ UNCHANGED dbgVars

\* The conversion read storing what it has before it tests the bus.
ReadConversionStoreFirst(B) ==
    /\ pc = "conv"
    /\ bus' = logBus(clampIdx(idx), "conv")
    /\ \E ack \in WireResults, avail \in Available, b \in B :
         /\ adc' = filterStep(
                [adc EXCEPT !.raw[clampIdx(idx)] = assemble(b[1], b[2])],
                clampIdx(idx))
         /\ rx' = b
         /\ IF ack # 0
            THEN returnError(ack)
            ELSE IF ~avail THEN returnError(2) ELSE nextChannel
    /\ UNCHANGED <<dev, entry, polls, wire>>
    /\ UNCHANGED loopVars
    /\ UNCHANGED matVars
    /\ UNCHANGED dbgVars

\* The rest of readAdcI, the device delivering a byte pair of B: select
\* REG_CONV, read 2 bytes into adc->raw[idx]; then readAdc filters the
\* channel and goes on.
ReadConversionOf(B) ==
    /\ pc = "conv"
    /\ bus' = logBus(clampIdx(idx), "conv")
    /\ \E ack \in WireResults, avail \in Available, b \in B :
         IF ack # 0
         THEN returnError(ack) /\ adc' = adc /\ rx' = rx
         ELSE IF ~avail
              THEN returnError(2) /\ adc' = adc /\ rx' = rx
              ELSE /\ adc' = filterStep(
                        [adc EXCEPT !.raw[clampIdx(idx)] = assemble(b[1], b[2])],
                        clampIdx(idx))
                   /\ rx' = b
                   /\ nextChannel
    /\ UNCHANGED <<dev, entry, polls, wire>>
    /\ UNCHANGED loopVars
    /\ UNCHANGED matVars
    /\ UNCHANGED dbgVars

\* The conversion read with the samples AdcSpec lets the device deliver.
ReadConversion == ReadConversionOf(ConvBytes)

\* loop() after readAdc: on an error one readConfig; then the cycle goes on
\* to the next one (what loop() does in between leaves adc alone).
AfterReadAdc ==
    /\ pc = "ret"
    /\ pc' = "idle"
    /\ IF err # 0
       THEN \E ack \in WireResults, avail \in Available, rdy \in {0, 1} :
              LET c == readConfig(ack, avail, rdy) IN
              /\ adc' = [adc EXCEPT !.config = c.config]
              /\ err' = c.err
       ELSE UNCHANGED <<adc, err>>
    /\ UNCHANGED <<dev, idx, entry, bus, polls, wire, rx>>
    /\ UNCHANGED loopVars
    /\ UNCHANGED matVars
    /\ UNCHANGED dbgVars

AdcNext ==
    \/ InitAdc
    \/ ReadAdcEnter
    \/ StartChannel
    \/ Poll
    \/ ReadConversion
    \/ AfterReadAdc

AdcInit == Init /\ wline = [r \in Rows |-> LOW]

AdcSpec == AdcInit /\ [][AdcNext]_vars

\* The processor does not halt: a step that can be taken is taken.
FairAdcSpec == AdcSpec /\ WF_vars(AdcNext)

---------------------------------------------------------------------------
(* WordSpec: readAdcI called for every channel over every mirrored         *)
(* configuration (the mirror holds whatever the last configuration read    *)
(* delivered).                                                             *)

Words == 0 .. UINT16_MAX

WordInit ==
    /\ \E w \in Words : adc = [adcInit(15) EXCEPT !.config = w]
    /\ dev = DevReset
    /\ pc = "chan"
    /\ idx \in Channels
    /\ err = 0
    /\ entry = snapshot(adc)
    /\ bus = noBus
    /\ polls = 0
    /\ matrix_state = [c \in Codes |-> HIGH]
    /\ wline = [r \in Rows |-> HIGH]
    /\ closed = {}
    /\ table = codes
    /\ events = <<>>
    /\ seen = [p \in Positions |-> HIGH]
    /\ driven = [p \in Positions |-> wline]
    /\ joystick = released
    /\ pinmode = "input"
    /\ before = matrix_state
    /\ changed = FALSE
    /\ wire = <<>>
    /\ rx = <<>>
    /\ buf = noText
    /\ wrote = {}
    /\ bits = noText
    /\ nulled = ""
    /\ cycle = <<"readAdc">>
    /\ counter = 0

WordNext == pc = "chan" /\ bus = noBus /\ StartChannel

WordSpec == WordInit /\ [][WordNext]_vars

---------------------------------------------------------------------------
(* IndexSpec: one call readAdcI(adc, idx) for every uint8_t idx, after an  *)
(* acknowledged initAdc; pc = "ret" once readAdcI has returned err.        *)

Indices == 0 .. 255

IndexInit ==
    /\ \E m \in Masks : adc = [adcInit(m) EXCEPT !.config = startupConfig]
    /\ dev = startupConfig
    /\ pc = "chan"
    /\ idx \in Indices
    /\ err = 0
    /\ entry = snapshot(adc)
    /\ bus = noBus
    /\ polls = 0
    /\ matrix_state = [c \in Codes |-> HIGH]
    /\ wline = [r \in Rows |-> HIGH]
    /\ closed = {}
    /\ table = codes
    /\ events = <<>>
    /\ seen = [p \in Positions |-> HIGH]
    /\ driven = [p \in Positions |-> wline]
    /\ joystick = released
    /\ pinmode = "input"
    /\ before = matrix_state
    /\ changed = FALSE
    /\ wire = wireBytes(startupConfig)
    /\ rx = <<>>
    /\ buf = noText
    /\ wrote = {}
    /\ bits = noText
    /\ nulled = ""
    /\ cycle = <<>>
    /\ counter = 0

\* readAdcI(adc, idx) up to the poll loop: idx &= 0b11; a masked channel
\* returns 0 at once; otherwise the conversion is requested.
SelectChannel ==
    /\ pc = "chan"
    /\ IF ~enabled(adc.mask, idx)
       THEN /\ pc' = "ret" /\ err' = 0
            /\ UNCHANGED <<adc, dev, bus, polls, wire>>
       ELSE \E ack \in WireResults, ret \in Indeterminate :
              LET w == writeConfig(conversionWord(adc.config, clampIdx(idx)), ack, ret) IN
              /\ adc' = [adc EXCEPT !.config = w.config]
              /\ dev' = w.dev
              /\ wire' = wireBytes(conversionWord(adc.config, clampIdx(idx)))
              /\ bus' = logBus(clampIdx(idx), IF ack # 0 THEN "nack" ELSE "write")
              /\ IF w.err # 0
                 THEN pc' = "ret" /\ err' = w.err /\ polls' = polls
                 ELSE pc' = "poll" /\ err' = err /\ polls' = 0
    /\ UNCHANGED <<idx, entry, rx>>
    /\ UNCHANGED loopVars
    /\ UNCHANGED matVars
    /\ UNCHANGED dbgVars

\* The rest of readAdcI: select REG_CONV, read 2 bytes into adc->raw[idx],
\* return 0.
StoreSample ==
    /\ pc = "conv"
    /\ pc' = "ret"
    /\ bus' = logBus(clampIdx(idx), "conv")
    /\ \E ack \in WireResults, avail \in Available, b \in ConvBytes :
         IF ack # 0
         THEN err' = ack /\ adc' = adc /\ rx' = rx
         ELSE IF ~avail
              THEN err' = 2 /\ adc' = adc /\ rx' = rx
              ELSE /\ adc' = [adc EXCEPT !.raw[clampIdx(idx)] = assemble(b[1], b[2])]
                   /\ rx' = b
                   /\ err' = 0
    /\ UNCHANGED <<dev, idx, entry, polls, wire>>
    /\ UNCHANGED loopVars
    /\ UNCHANGED matVars
    /\ UNCHANGED dbgVars

IndexNext ==
    \/ SelectChannel
    \/ Poll
    \/ StoreSample

IndexSpec == IndexInit /\ [][IndexNext]_vars

---------------------------------------------------------------------------
(* ConvSpec: the conversion read of channel 0 in the first readAdc, the    *)
(* device delivering every pair of bytes.                                  *)

Bytes == 0 .. 255

ConvInit ==
    /\ adc = [adcInit(15) EXCEPT
                 !.config = 2^15 + (conversionWord(startupConfig, 0) % 2^15)]
    /\ dev = conversionWord(startupConfig, 0) % 2^15
    /\ pc = "conv"
    /\ idx = 0
    /\ err = 0
    /\ entry = snapshot(adc)
    /\ bus = [noBus EXCEPT ![0] = {"write", "poll"}]
    /\ polls = 0
    /\ matrix_state = [c \in Codes |-> HIGH]
    /\ wline = [r \in Rows |-> HIGH]
    /\ closed = {}
    /\ table = codes
    /\ events = <<>>
    /\ seen = [p \in Positions |-> HIGH]
    /\ driven = [p \in Positions |-> wline]
    /\ joystick = released
    /\ pinmode = "input"
    /\ before = matrix_state
    /\ changed = FALSE
    /\ wire = wireBytes(conversionWord(startupConfig, 0))
    /\ rx = <<>>
    /\ buf = noText
    /\ wrote = {}
    /\ bits = noText
    /\ nulled = ""
    /\ cycle = <<"readAdc">>
    /\ counter = 0

ConvNext == ReadConversionOf(Bytes \X Bytes)

ConvSpec == ConvInit /\ [][ConvNext]_vars

---------------------------------------------------------------------------
(* CodecSpec: the diagnostics of a DEBUG build over every configuration    *)
(* word, dprintf(humanConfigz(adc.config)), and writeConfig called with    *)
(* every word. Characters are one-character strings, a C string is the     *)
(* characters of buf before the first NUL.                                 *)

\* The work of humanConfigz: buf, the write index wh, the accumulator val,
\* the indices written so far, and the values val had at the terminal bit
\* of each section, in order.
humanStart(b) == [buf |-> b, wh |-> 0, val |-> 0, wrote |-> {}, fields |-> <<>>]

\* buf[k] = ch, at whatever index k is.
store(st, k, ch) ==
    [st EXCEPT !.buf = [j \in DOMAIN st.buf |-> IF j = k THEN ch ELSE st.buf[j]],
               !.wrote = @ \cup {k}]

\* buf[wh++] = ch
put(st, ch) == [store(st, st.wh, ch) EXCEPT !.wh = st.wh + 1]

\* strncpy(buf + wh, src, n): the characters of src, then NUL up to n.
RECURSIVE strncpy(_, _, _, _)
strncpy(st, src, n, k) ==
    IF k = n THEN st
    ELSE strncpy(store(st, st.wh + k, IF k < Len(src) THEN src[k + 1] ELSE NUL),
                 src, n, k + 1)

\* wh += n
advance(st, n) == [st EXCEPT !.wh = st.wh + n]

\* itoa(n, scratch, 10) for n >= 0.
digit(d) == <<"0", "1", "2", "3", "4", "5", "6", "7", "8", "9">>[d + 1]
RECURSIVE itoa(_)
itoa(n) == IF n < 10 THEN <<digit(n)>> ELSE Append(itoa(n \div 10), digit(n % 10))

\* hntoc(n): the digit of the low three bits of n.
hntoc(n) == digit(4 * Bit(U16(n), 2) + 2 * Bit(U16(n), 1) + Bit(U16(n), 0))

\* case 12 with the differential digit taken without its - 1.
muxTokenNoOffset(st) ==
    IF Bit(st.val, 2) = 1
    THEN put(put(put(st, "A"), hntoc(st.val % 4)), "G")
    ELSE IF st.val # 0
         THEN put(put(put(st, "D"), hntoc(st.val % 4)), "3")
         ELSE put(put(put(st, "D"), "0"), "1")

\* case 12: the mux token.
muxToken(st) ==
    IF Bit(st.val, 2) = 1
    THEN put(put(put(st, "A"), hntoc(st.val % 4)), "G")
    ELSE IF st.val # 0
         THEN put(put(put(st, "D"), hntoc((st.val % 4) - 1)), "3")
         ELSE put(put(put(st, "D"), "0"), "1")

\* case 9 with the tokens of the codes 0 and 1 exchanged.
gainTokenSwapped(st) ==
    LET s == CASE st.val = 0 -> <<"4", ".", "0">>
               [] st.val = 1 -> <<"6", ".", "1">>
               [] st.val = 2 -> <<"2", ".", "0">>
               [] st.val = 3 -> <<"1", ".", "0">>
               [] st.val = 4 -> <<"0", ".", "5">>
               [] OTHER -> <<"0", ".", "2">>
    IN advance(strncpy(st, s, 3, 0), 3)

\* case 9: the gain token.
gainToken(st) ==
    LET s == CASE st.val = 0 -> <<"6", ".", "1">>
               [] st.val = 1 -> <<"4", ".", "0">>
               [] st.val = 2 -> <<"2", ".", "0">>
               [] st.val = 3 -> <<"1", ".", "0">>
               [] st.val = 4 -> <<"0", ".", "5">>
               [] OTHER -> <<"0", ".", "2">>
    IN advance(strncpy(st, s, 3, 0), 3)

\* case 5: the data rate token; 8 << val is 8 * 2^val.
rateToken(st) ==
    LET s == CASE st.val = 7 -> <<"8", "6", "0">>
               [] st.val = 6 -> <<"4", "7", "5">>
               [] OTHER -> itoa(8 * 2^st.val)
    IN advance(strncpy(st, s, 3, 0), 3)

\* for (int8_t j = -6; j < 0; ++j) buf[wh + j] = ' ';
RECURSIVE blank(_, _)
blank(st, j) == IF j >= 0 THEN st ELSE blank(store(st, st.wh + j, " "), j + 1)

\* case 0 blanking only the four characters before the queue token.
queueTokenBlankFour(st) ==
    LET s == CASE st.val = 3 -> strncpy(blank(st, -4), <<"D", "D">>, 2, 0)
               [] st.val = 2 -> strncpy(st, <<"Q", "4">>, 2, 0)
               [] st.val = 1 -> strncpy(st, <<"Q", "2">>, 2, 0)
               [] OTHER -> strncpy(st, <<"Q", "1">>, 2, 0)
    IN advance(s, 2)

\* case 0: the comparator queue token.
queueToken(st) ==
    LET s == CASE st.val = 3 -> strncpy(blank(st, -6), <<"D", "D">>, 2, 0)
               [] st.val = 2 -> strncpy(st, <<"Q", "4">>, 2, 0)
               [] st.val = 1 -> strncpy(st, <<"Q", "2">>, 2, 0)
               [] OTHER -> strncpy(st, <<"Q", "1">>, 2, 0)
    IN advance(s, 2)

\* val <<= 1; val |= ((config >> i) & 0b1), val being a uint8_t.
shiftIn(st, config, i) == [st EXCEPT !.val = (2 * st.val + Bit(config, i)) % 2^8]

\* The end of a section without val = 0.
doneKeepVal(st) == put(st, " ")

\* done: buf[wh++] = ' '; val = 0;
done(st) == [put(st, " ") EXCEPT !.val = 0]

\* switch (i) at a terminal bit: val is the value of the section.
section(st) == [st EXCEPT !.fields = Append(@, st.val)]

\* The for loop of humanConfigz from bit i down, and ret: buf[wh] = '\0'.
RECURSIVE humanFrom(_, _, _)
humanFrom(config, i, st) ==
    LET s == shiftIn(st, config, i)
        f == section(s)
        flag(one, zero) == put(f, IF f.val # 0 THEN one ELSE zero)
    IN CASE i = 15 -> humanFrom(config, i - 1, done(flag("I", "C")))
         [] i = 12 -> humanFrom(config, i - 1, done(muxToken(f)))
         [] i = 9 -> humanFrom(config, i - 1, done(gainToken(f)))
         [] i = 8 -> humanFrom(config, i - 1, done(flag("D", "C")))
         [] i = 5 -> humanFrom(config, i - 1, done(rateToken(f)))
         [] i = 4 -> humanFrom(config, i - 1, done(flag("W", "T")))
         [] i = 3 -> humanFrom(config, i - 1, done(flag("H", "L")))
         [] i = 2 -> humanFrom(config, i - 1, done(flag("L", "N")))
         [] i = 0 -> LET q == queueToken(f) IN store(q, q.wh, NUL)
         [] OTHER -> humanFrom(config, i - 1, s)

\* humanConfigz(config), buf holding b when it is called.
humanConfigz(config, b) == humanFrom(config, 15, humanStart(b))

\* The test of writeConfig's read-back: (config & 0x7fff) != (adc->config
\* & 0x7fff).
mismatch(config, readback) == config % 2^15 # readback % 2^15

\* bitConfigz's locals at its first statement, buf holding b.
bitStart(b) == [buf |-> b, wh |-> 0, wrote |-> {}]

\* The case labels that share buf[wh++] = ' ', read as bits 15..0 without
\* those of the nibble boundaries.
terminalNibbles(i) == i \in {12, 8, 4}

\* The case labels that share buf[wh++] = ' ': the terminal bits of the
\* sections of the word.
terminal(i) == i \in {15, 12, 9, 8, 5, 4, 3, 2}

\* bitConfigz's loop from bit i down: the bit's character, a NUL after it,
\* and a blank over that NUL when the bit ends a section.
RECURSIVE bitFrom(_, _, _)
bitFrom(config, i, st) ==
    LET b == put(st, IF Bit(config, i) = 1 THEN "1" ELSE "0")
        z == store(b, b.wh, NUL)
    IN IF terminal(i) THEN bitFrom(config, i - 1, put(z, " "))
       ELSE IF i = 0 THEN z
       ELSE bitFrom(config, i - 1, z)

\* bitConfigz(config), buf holding b when it is called.
bitConfigz(config, b) == bitFrom(config, 15, bitStart(b))

CodecInit ==
    /\ \E w \in Words : adc = [adcInit(15) EXCEPT !.config = w]
    /\ dev = startupConfig
    /\ pc = "codec"
    /\ idx = 0
    /\ err = 0
    /\ entry = snapshot(adc)
    /\ bus = noBus
    /\ polls = 0
    /\ matrix_state = [c \in Codes |-> HIGH]
    /\ wline = [r \in Rows |-> HIGH]
    /\ closed = {}
    /\ table = codes
    /\ events = <<>>
    /\ seen = [p \in Positions |-> HIGH]
    /\ driven = [p \in Positions |-> wline]
    /\ joystick = released
    /\ pinmode = "input"
    /\ before = matrix_state
    /\ changed = FALSE
    /\ wire = <<>>
    /\ rx = <<>>
    /\ buf = noText
    /\ wrote = {}
    /\ bits = noText
    /\ nulled = ""
    /\ cycle = <<>>
    /\ counter = 0

\* dprintf(humanConfigz(adc.config))
HumanConfigz ==
    /\ pc = "codec"
    /\ pc' = "human"
    /\ LET r == humanConfigz(adc.config, buf) IN
         /\ buf' = r.buf
         /\ wrote' = r.wrote
    /\ UNCHANGED <<bits, nulled>>
    /\ UNCHANGED adcVars
    /\ UNCHANGED matVars
    /\ UNCHANGED loopVars

\* dprintf(bitConfigz(adc.config))
BitConfigz ==
    /\ pc = "codec"
    /\ pc' = "bits"
    /\ bits' = bitConfigz(adc.config, bits).buf
    /\ UNCHANGED <<buf, wrote, nulled>>
    /\ UNCHANGED adcVars
    /\ UNCHANGED matVars
    /\ UNCHANGED loopVars

\* writeConfig(&adc, w), w being the word the mirror holds.
WriteWord ==
    /\ pc = "codec"
    /\ pc' = "written"
    /\ \E ack \in WireResults, ret \in Indeterminate :
         LET w == writeConfig(adc.config, ack, ret) IN
         /\ adc' = [adc EXCEPT !.config = w.config]
         /\ dev' = w.dev
         /\ err' = w.err
    /\ wire' = wireBytes(adc.config)
    /\ UNCHANGED <<idx, entry, bus, polls, rx>>
    /\ UNCHANGED matVars
    /\ UNCHANGED loopVars
    /\ UNCHANGED dbgVars

CodecNext ==
    \/ HumanConfigz
    \/ BitConfigz
    \/ WriteWord

CodecSpec == CodecInit /\ [][CodecNext]_vars

---------------------------------------------------------------------------
(* MatrixSpec: the button matrix.                                          *)
(*   pc = "setup"    setup() is about to call initMatrix                   *)
(*   pc = "idle"     between two scans                                     *)
(*   pc = "scanned"  scanMatrix has just returned                          *)

\* pins->codes[i][j]
codeAt(i, j) == table[i + 1][j + 1]

\* The switches that are operated: no two of them in one row or column, so
\* that no two write pins are ever shorted through a read pin.
Pressable == {<<2, 0>>, <<0, 1>>, <<1, 2>>}

\* digitalRead(pins->rpins[j]): the read pin is pulled up, and pulled LOW
\* through a closed switch by a write pin that is LOW.
digitalRead(wl, cl, j) ==
    IF \E r \in Rows : <<r, j>> \in cl /\ wl[r] = LOW THEN LOW ELSE HIGH

\* value = digitalRead(pins->rpins[j]) in the scan st at position (i, j):
\* with the pins in matrix mode what the switches make of the row lines,
\* otherwise what the floating input happens to be at.
readPin(st, i, j) ==
    IF st.mode = "matrix" THEN digitalRead(st.wl, closed, j) ELSE st.fl[<<i, j>>]

\* buttonChange(code, change): joystick.setButton(code, change == LOW ? 1 : 0)
buttonChange(js, code, change) ==
    [js EXCEPT !.button[code] = IF change = LOW THEN 1 ELSE 0]

\* The body of the inner loop without state->s[code] = value.
visitNoStore(st, i, j) ==
    LET value == readPin(st, i, j)
        code == codeAt(i, j)
        hit == value # st.s[code]
    IN [s |-> st.s,
        wl |-> st.wl,
        ev |-> IF hit THEN Append(st.ev, <<code, value>>) ELSE st.ev,
        seen |-> [st.seen EXCEPT ![<<i, j>>] = value],
        at |-> [st.at EXCEPT ![<<i, j>>] = st.wl],
        js |-> IF hit THEN buttonChange(st.js, code, value) ELSE st.js,
        mode |-> st.mode,
        fl |-> st.fl,
        chg |-> st.chg \/ hit]

\* The body of scanMatrix's inner loop at position (i, j): read, look up
\* the code, and on a difference call back, set *changed, store the level.
visit(st, i, j) ==
    LET value == readPin(st, i, j)
        code == codeAt(i, j)
        hit == value # st.s[code]
    IN [s |-> IF hit THEN [st.s EXCEPT ![code] = value] ELSE st.s,
        wl |-> st.wl,
        ev |-> IF hit THEN Append(st.ev, <<code, value>>) ELSE st.ev,
        seen |-> [st.seen EXCEPT ![<<i, j>>] = value],
        at |-> [st.at EXCEPT ![<<i, j>>] = st.wl],
        js |-> IF hit THEN buttonChange(st.js, code, value) ELSE st.js,
        mode |-> st.mode,
        fl |-> st.fl,
        chg |-> st.chg \/ hit]

\* digitalWrite(pins->wpins[i], level)
digitalWrite(st, i, level) == [st EXCEPT !.wl[i] = level]

\* scanMatrix's loops from position k (row-major) on: the write pin goes
\* LOW before the first read of its row and HIGH after the last.
RECURSIVE scanFrom(_, _)
scanFrom(k, st) ==
    IF k = MAT_H * MAT_W
    THEN st
    ELSE LET i == k \div MAT_W
             j == k % MAT_W
             s1 == IF j = 0 THEN digitalWrite(st, i, LOW) ELSE st
             s2 == visit(s1, i, j)
             s3 == IF j = MAT_W - 1 THEN digitalWrite(s2, i, HIGH) ELSE s2
         IN scanFrom(k + 1, s3)

\* setup(): initMatrix(&pins, &matrix_state). pinMode writes no level: the
\* write pins drive what the port latch holds.
InitMatrix ==
    /\ pc = "setup"
    /\ pc' = "idle"
    /\ pinmode' = "matrix"
    /\ matrix_state' = [c \in Codes |-> HIGH]
    /\ UNCHANGED <<wline, closed, table, events, seen, driven, joystick>>
    /\ UNCHANGED <<before, changed>>
    /\ UNCHANGED adcVars
    /\ UNCHANGED <<loopVars, dbgVars>>

\* Somebody presses or releases a switch.
Operate(p) ==
    /\ pc' = IF pc = "scanned" THEN "idle" ELSE pc
    /\ closed' = IF p \in closed THEN closed \ {p} ELSE closed \cup {p}
    /\ UNCHANGED <<matrix_state, wline, table, events, seen, driven>>
    /\ UNCHANGED <<pinmode, joystick, before, changed>>
    /\ UNCHANGED adcVars
    /\ UNCHANGED <<loopVars, dbgVars>>

\* The levels the read pins may float at, position by position, during one
\* scan: any, unless the pins are in matrix mode (then they do not float).
Floating ==
    IF pinmode = "matrix"
    THEN {[p \in Positions |-> HIGH]}
    ELSE [Positions -> {LOW, HIGH}]

\* scanMatrix(&pins, &matrix_state, &buttonChange, &changed) as a whole.
scanMatrix ==
    /\ before' = matrix_state
    /\ \E fl \in Floating :
       LET st == scanFrom(0, [s |-> matrix_state, wl |-> wline, ev |-> <<>>,
                              seen |-> seen, at |-> driven, js |-> joystick,
                              mode |-> pinmode, fl |-> fl, chg |-> changed])
       IN /\ matrix_state' = st.s
          /\ wline' = st.wl
          /\ events' = st.ev
          /\ seen' = st.seen
          /\ driven' = st.at
          /\ joystick' = st.js
          /\ changed' = st.chg
    /\ UNCHANGED <<closed, table, pinmode>>

\* loop(): the scan, whatever else the cycle does.
ScanMatrix ==
    /\ pc \in {"idle", "scanned"}
    /\ pc' = "scanned"
    /\ scanMatrix
    /\ UNCHANGED adcVars
    /\ UNCHANGED <<loopVars, dbgVars>>

MatrixNext ==
    \/ InitMatrix
    \/ \E p \in Pressable : Operate(p)
    \/ ScanMatrix

MatrixInit == Init /\ adc.mask = 15 /\ dev = DevReset

MatrixSpec == MatrixInit /\ [][MatrixNext]_vars

---------------------------------------------------------------------------
(* TableSpec: the scanner built with one of several permutation tables:    *)
(* the sketch's own, and tables in which two positions carry one code.     *)
(* Every code of these tables is inside matrix_state_t.s; a code beyond it *)
(* makes state->s[code] an access outside the array and is not modelled.   *)

Tables ==
    {codes,
     <<<<3, 2, 8>>, <<6, 7, 0>>, <<4, 5, 2>>>>,
     <<<<3, 2, 8>>, <<6, 7, 0>>, <<4, 5, 3>>>>}

TableInit ==
    /\ adc = adcInit(15)
    /\ dev = DevReset
    /\ pc = "setup"
    /\ idx = 0
    /\ err = 0
    /\ entry = snapshot(adc)
    /\ bus = noBus
    /\ polls = 0
    /\ matrix_state = [c \in Codes |-> 0]
    /\ wline \in PortLatch
    /\ closed = {}
    /\ table \in Tables
    /\ events = <<>>
    /\ seen = [p \in Positions |-> HIGH]
    /\ driven = [p \in Positions |-> wline]
    /\ joystick = released
    /\ pinmode = "input"
    /\ before = matrix_state
    /\ changed = FALSE
    /\ wire = <<>>
    /\ rx = <<>>
    /\ buf = noText
    /\ wrote = {}
    /\ bits = noText
    /\ nulled = ""
    /\ cycle = <<>>
    /\ counter = 0

\* err = scanMatrix(&pins, &matrix_state, &buttonChange, &changed): the scan
\* and the value the caller receives. scanMatrix ends without a return
\* statement.
ScanReturn ==
    /\ pc \in {"idle", "scanned"}
    /\ pc' = "scanned"
    /\ scanMatrix
    /\ err' \in Indeterminate
    /\ UNCHANGED <<adc, dev, idx, entry, bus, polls, wire, rx>>
    /\ UNCHANGED <<loopVars, dbgVars>>

TableNext ==
    \/ InitMatrix
    \/ \E p \in Pressable : Operate(p)
    \/ ScanReturn

TableSpec == TableInit /\ [][TableNext]_vars

---------------------------------------------------------------------------
(* SetupSpec: setup() from its first statement to its return, then the     *)
(* scan of the first loop() cycle, switches being operated before it.      *)

\* setup(): err = initAdc(&adc); if (err != 0) return; initJoystick();
\* initMatrix(&pins, &matrix_state). initAdc ends without a return
\* statement, so err is indeterminate.
Setup ==
    /\ pc = "setup"
    /\ pc' = "idle"
    /\ \E ack \in WireResults, ret \in Indeterminate :
         LET w == writeConfig(startupConfig, ack, ret) IN
         /\ adc' = [adc EXCEPT !.config = w.config]
         /\ dev' = w.dev
    /\ wire' = wireBytes(startupConfig)
    /\ err' \in Indeterminate
    /\ IF err' # 0
       THEN UNCHANGED <<pinmode, matrix_state>>
       ELSE /\ pinmode' = "matrix"
            /\ matrix_state' = [c \in Codes |-> HIGH]
    /\ UNCHANGED <<idx, entry, bus, polls, rx>>
    /\ UNCHANGED <<wline, closed, table, events, seen, driven, joystick>>
    /\ UNCHANGED <<before, changed>>
    /\ UNCHANGED <<loopVars, dbgVars>>

SetupNext ==
    \/ Setup
    \/ pc = "idle" /\ \E p \in Pressable : Operate(p)
    \/ pc = "idle" /\ ScanReturn

SetupSpec == MatrixInit /\ [][SetupNext]_vars

---------------------------------------------------------------------------
(* NullSpec: the entry points called on a NULL pointer, at any moment of   *)
(* MatrixSpec and initAdc. The shipped program never makes such a call;    *)
(* these are the calls a caller of the components could make.              *)

\* The NULL test placed after the function's first output: a configuration
\* write of word 0 for the driver, the first row strobe for the scanner.
nullCheckLate(fn) ==
    /\ err' = 1
    /\ nulled' = fn
    /\ wire' = wireBytes(0)
    /\ wline' = [wline EXCEPT ![0] = LOW]
    /\ UNCHANGED <<adc, dev, idx, entry, bus, polls, rx>>
    /\ UNCHANGED <<matrix_state, closed, table, events, seen, driven>>
    /\ UNCHANGED <<pinmode, joystick, before, changed>>
    /\ UNCHANGED <<buf, wrote, bits>>
    /\ UNCHANGED loopVars
    /\ UNCHANGED pc

\* if (p == NULL) { dprintf(...); return 1; } as the first statement of fn:
\* the caller receives 1 and goes on where it was.
nullCheck(fn) ==
    /\ err' = 1
    /\ nulled' = fn
    /\ UNCHANGED <<adc, dev, idx, entry, bus, polls, wire, rx>>
    /\ UNCHANGED matVars
    /\ UNCHANGED <<buf, wrote, bits>>
    /\ UNCHANGED loopVars
    /\ UNCHANGED pc

ReadConfigNull == nullCheck("readConfig")
WriteConfigNull == nullCheck("writeConfig")
InitAdcNull == nullCheck("initAdc")
ReadAdcINull == nullCheck("readAdcI")
ReadAdcNull == nullCheck("readAdc")
InitMatrixNull == nullCheck("initMatrix")
ScanMatrixNull == nullCheck("scanMatrix")

NullNext ==
    \/ InitAdc
    \/ InitMatrix
    \/ \E p \in Pressable : Operate(p)
    \/ pinmode = "matrix" /\ ScanMatrix
    \/ ReadConfigNull
    \/ WriteConfigNull
    \/ InitAdcNull
    \/ ReadAdcINull
    \/ ReadAdcNull
    \/ InitMatrixNull
    \/ ScanMatrixNull

NullSpec == MatrixInit /\ [][NullNext]_vars

---------------------------------------------------------------------------
(* LoopSpec: loop() cycle after cycle, from the state setup() leaves when  *)
(* the start-up configuration was written and initAdc's value was 0.       *)
(*   pc = "idle"    loop() is in delay(SAMPLE_PERIOD_MS)                   *)
(*   pc = "chan", "poll", "conv"  inside readAdc, as in AdcSpec            *)
(*   pc = "ret"     readAdc has returned err                               *)
(*   pc = "axes"    loop() is about to set the four axes                   *)
(*   pc = "scan"    loop() is about to call scanMatrix                     *)
(*   pc = "report"  loop() is at if (changed || !counter)                  *)

SAMPLE_FREQ == 50
SAMPLE_PERIOD_MS == 1000 \div SAMPLE_FREQ
COLD_UPDATE_MS == 1000
COLD_UPDATE_N == COLD_UPDATE_MS \div SAMPLE_PERIOD_MS

\* The one sample the device delivers in LoopSpec, and the one switch that
\* is operated.
LoopBytes == {<<0, 100>>}
LoopSwitch == <<2, 0>>

LoopInit ==
    /\ adc = [adcInit(15) EXCEPT !.config = startupConfig]
    /\ dev = startupConfig
    /\ pc = "idle"
    /\ idx = 0
    /\ err = 0
    /\ entry = snapshot(adc)
    /\ bus = noBus
    /\ polls = 0
    /\ matrix_state = [c \in Codes |-> HIGH]
    /\ wline \in PortLatch
    /\ closed = {}
    /\ table = codes
    /\ events = <<>>
    /\ seen = [p \in Positions |-> HIGH]
    /\ driven = [p \in Positions |-> wline]
    /\ joystick = released
    /\ pinmode = "matrix"
    /\ before = [c \in Codes |-> 0]
    /\ changed = FALSE
    /\ wire = wireBytes(startupConfig)
    /\ rx = <<>>
    /\ buf = noText
    /\ wrote = {}
    /\ bits = noText
    /\ nulled = ""
    /\ cycle = <<>>
    /\ counter = 0

\* loop() reading the configuration again when the first read failed.
DiagnoseAgain ==
    /\ pc = "ret"
    /\ IF err # 0
       THEN \E ack \in WireResults, avail \in Available, rdy \in {0, 1} :
              LET c == readConfig(ack, avail, rdy) IN
              /\ adc' = [adc EXCEPT !.config = c.config]
              /\ err' = c.err
              /\ cycle' = IF c.err # 0
                          THEN cycle \o <<"readConfig", "readConfig">>
                          ELSE Append(cycle, "readConfig")
              /\ pc' = IF c.err # 0 THEN "idle" ELSE "axes"
       ELSE /\ pc' = "axes"
            /\ UNCHANGED <<adc, err, cycle>>
    /\ UNCHANGED <<dev, idx, entry, bus, polls, wire, rx, counter>>
    /\ UNCHANGED matVars
    /\ UNCHANGED dbgVars

\* loop() after readAdc returned: on an error one readConfig, and return
\* if that fails too.
Diagnose ==
    /\ pc = "ret"
    /\ IF err # 0
       THEN \E ack \in WireResults, avail \in Available, rdy \in {0, 1} :
              LET c == readConfig(ack, avail, rdy) IN
              /\ adc' = [adc EXCEPT !.config = c.config]
              /\ err' = c.err
              /\ cycle' = Append(cycle, "readConfig")
              /\ pc' = IF c.err # 0 THEN "idle" ELSE "axes"
       ELSE /\ pc' = "axes"
            /\ UNCHANGED <<adc, err, cycle>>
    /\ UNCHANGED <<dev, idx, entry, bus, polls, wire, rx, counter>>
    /\ UNCHANGED matVars
    /\ UNCHANGED dbgVars

\* loop(): joystick.setXAxis, setYAxis, setZAxis, setRxAxis of adc.cur.
SetAxes ==
    /\ pc = "axes"
    /\ pc' = "scan"
    /\ cycle' = Append(cycle, "setAxes")
    /\ UNCHANGED counter
    /\ UNCHANGED adcVars
    /\ UNCHANGED matVars
    /\ UNCHANGED dbgVars

\* loop(): err = scanMatrix(...); scanMatrix ends without a return
\* statement.
LoopScan ==
    /\ pc = "scan"
    /\ pc' = "report"
    /\ scanMatrix
    /\ err' \in Indeterminate
    /\ cycle' = Append(cycle, "scanMatrix")
    /\ UNCHANGED counter
    /\ UNCHANGED <<adc, dev, idx, entry, bus, polls, wire, rx>>
    /\ UNCHANGED dbgVars

\* joystick.sendState(): the host receives the buttons as they are set.
sendState(js) == [js EXCEPT !.sent = js.button]

\* The report sent on the periodic update only: if (!counter) { ... }.
ReportColdOnly ==
    /\ pc = "report"
    /\ pc' = "idle"
    /\ IF counter = 0
       THEN /\ cycle' = cycle \o <<"report", "sendState">>
            /\ joystick' = sendState(joystick)
            /\ changed' = FALSE
       ELSE /\ cycle' = Append(cycle, "report")
            /\ UNCHANGED <<joystick, changed>>
    /\ counter' = ((counter + COLD_UPDATE_N - 1) % 2^8) % COLD_UPDATE_N
    /\ UNCHANGED <<matrix_state, wline, closed, table, events, seen>>
    /\ UNCHANGED <<driven, pinmode, before>>
    /\ UNCHANGED adcVars
    /\ UNCHANGED dbgVars

\* loop(): if (changed || !counter) { sendState(); changed = false; } and
\* the counter's step; loop() returns.
Report ==
    /\ pc = "report"
    /\ pc' = "idle"
    /\ IF changed \/ counter = 0
       THEN /\ cycle' = cycle \o <<"report", "sendState">>
            /\ joystick' = sendState(joystick)
            /\ changed' = FALSE
       ELSE /\ cycle' = Append(cycle, "report")
            /\ UNCHANGED <<joystick, changed>>
    /\ counter' = ((counter + COLD_UPDATE_N - 1) % 2^8) % COLD_UPDATE_N
    /\ UNCHANGED <<matrix_state, wline, closed, table, events, seen>>
    /\ UNCHANGED <<driven, pinmode, before>>
    /\ UNCHANGED adcVars
    /\ UNCHANGED dbgVars

LoopNext ==
    \/ ReadAdcEnter
    \/ StartChannel
    \/ Poll
    \/ ReadConversionOf(LoopBytes)
    \/ Diagnose
    \/ SetAxes
    \/ LoopScan
    \/ Report
    \/ pc = "idle" /\ Operate(LoopSwitch)

LoopSpec == LoopInit /\ [][LoopNext]_vars

---------------------------------------------------------------------------
(* AxisSpec: loop() cycle after cycle on a bus that never fails, with a    *)
(* device whose conversion is ready at the first poll and a build in which *)
(* writeConfig's missing return value is 0, the first axis moving between  *)
(* two positions.                                                          *)

\* The samples the device delivers on channel 0 in AxisSpec.
AxisBytes == {<<0, 100>>, <<0, 50>>}

AxisNext ==
    \/ ReadAdcEnter
    \/ StartChannel /\ pc' = "poll"
    \/ Poll /\ pc' = "conv"
    \/ ReadConversionOf(IF idx = 0 THEN AxisBytes ELSE LoopBytes) /\ err' = 0
    \/ Diagnose
    \/ SetAxes
    \/ LoopScan
    \/ Report
    \/ pc = "idle" /\ Operate(LoopSwitch)

AxisSpec == LoopInit /\ [][AxisNext]_vars

---------------------------------------------------------------------------
(* ColdSpec: loop() called again and again, no switch operated.            *)
(* A conversion request may fail and so may the diagnostic read; a         *)
(* conversion requested is ready at the first poll and is read.            *)

ColdNext ==
    \/ ReadAdcEnter
    \/ StartChannel
    \/ Poll /\ pc' = "conv"
    \/ ReadConversionOf(LoopBytes) /\ err' = 0
    \/ Diagnose
    \/ SetAxes
    \/ LoopScan
    \/ Report

ColdSpec == LoopInit /\ [][ColdNext]_vars

---------------------------------------------------------------------------
(* Claims about the driver, checked under AdcSpec and FairAdcSpec.         *)

inCall == pc \in {"chan", "poll", "conv"}
sameSample(c) == adc.raw[c] = entry.raw[c] /\ adc.cur[c] = entry.cur[c]

\* C2: the wait for conversion-ready is bounded: an acquisition that polls
\* stops polling, also when the device never reports the ready bit.
C2_PollingEnds == (pc = "poll") ~> (pc # "poll")

\* C3: readAdc visits the channels in ascending order and returns the first
\* error at once: no bus transaction for a channel above the failing one,
\* and every channel from the failing one on keeps its raw sample and its
\* stabilized output.
C3_AbortAtFirstError ==
    /\ inCall => err = 0
    /\ (inCall \/ pc = "ret") =>
         \A c \in Channels : c > idx => bus[c] = {} /\ sameSample(c)
    /\ (pc = "ret" /\ err # 0) =>
         /\ Bit(adc.mask, idx) = 1
         /\ sameSample(idx)

\* Channel 2 failed after channels 0 and 1 took new samples.
C3_Witness ==
    /\ pc = "ret" /\ err # 0 /\ idx = 2 /\ adc.mask = 15
    /\ adc.raw[0] # entry.raw[0] /\ adc.raw[1] # entry.raw[1]
    /\ "conv" \in bus[2]

\* C4: whenever readAdc returns an error, the raw sample and the stabilized
\* output of every channel are what they were before the call.
C4_AllOrNothing ==
    (pc = "ret" /\ err # 0) => \A c \in Channels : sameSample(c)

\* The step of readAdc for a channel whose mask bit is clear: nothing on the
\* bus, the mirror and the samples as they were, and readAdc goes on to the
\* next channel, or returns 0 after the last, as after a success.
C5_MaskedStep ==
    (pc = "chan" /\ Bit(adc.mask, idx) = 0) =>
        /\ adc'.config = adc.config /\ adc'.raw = adc.raw
        /\ bus' = bus /\ dev' = dev
        /\ IF idx < 3 THEN pc' = "chan" /\ idx' = idx + 1 /\ err' = 0
                      ELSE pc' = "ret" /\ err' = 0

\* C5: a channel whose mask bit is clear is acquired with no bus transaction
\* and no change of its raw sample or of the mirrored configuration, the
\* acquisition returning success; readAdc leaves its sample untouched and
\* still returns success.
C5_MaskedUntouched ==
    /\ [](\A c \in Channels :
            Bit(adc.mask, c) = 0 => bus[c] = {} /\ adc.raw[c] = entry.raw[c])
    /\ [][C5_MaskedStep]_vars

\* readAdc returned success with channel 2 masked out and the others read.
C5_Witness ==
    /\ pc = "ret" /\ err = 0 /\ adc.mask = 11
    /\ \A c \in {0, 1, 3} : adc.raw[c] # entry.raw[c] /\ "conv" \in bus[c]

\* The step of readAdcI whose configuration write is not acknowledged: the
\* bus's error is returned and the mirror is what it was before the call.
C6_FailedWriteStep ==
    (pc = "chan" /\ "nack" \in bus'[idx]) =>
        /\ adc'.config = adc.config
        /\ pc' = "ret" /\ err' \in WireErrors /\ idx' = idx

\* C6: when the configuration write of an acquisition is not acknowledged,
\* the acquisition returns a transport error, the mirrored configuration is
\* what it was before the call, and no poll and no conversion read follow.
C6_FailedWrite ==
    /\ [](\A c \in Channels : "nack" \in bus[c] => bus[c] = {"nack"})
    /\ [][C6_FailedWriteStep]_vars

\* The write for channel 1 was not acknowledged, the mirror holding what
\* the acquisition of channel 0 left in it.
C6_Witness ==
    /\ pc = "ret" /\ idx = 1 /\ "nack" \in bus[1]
    /\ Field(adc.config, 12, 3) = 4

\* The channels whose acquisition has run to its end in this readAdc.
finished(c) == bus[c] = {} \/ "conv" \in bus[c]

\* The bus transactions of one step, in their place: a configuration write
\* opens the acquisition of the channel readAdc is at, every lower channel
\* being done with; a conversion read is made from the state the poll loop
\* left on a ready bit, once.
C11_BusStep ==
    \A c \in Channels :
        /\ (bus[c] = {} /\ bus'[c] # {}) =>
              /\ pc = "chan" /\ c = idx
              /\ bus'[c] \in {{"write"}, {"nack"}}
              /\ bus'[c] = {"write"} => Bit(adc'.config, 15) = 0
              /\ \A d \in Channels : d < c => finished(d)
        /\ ("poll" \in bus'[c] /\ pc = "poll" /\ pc' = "conv") =>
              Bit(adc'.config, 15) = 1
        /\ ("conv" \notin bus[c] /\ "conv" \in bus'[c]) =>
              /\ pc = "conv" /\ c = idx
              /\ pc' \in {"chan", "ret"}

\* C11: for an enabled channel the bus operations of one acquisition come in
\* the order configuration write, configuration reads until bit 15 reads 1,
\* conversion read; the conversion register is not read unless a ready bit
\* of 1 was read after the last configuration write (the write leaves bit 15
\* of the mirror 0, only a read sets it), and the write of the next channel
\* does not start before this acquisition has finished or failed.
C11_BusOrder ==
    /\ [](/\ pc = "poll" => bus[idx] \in {{"write"}, {"write", "poll"}}
          /\ pc = "conv" => /\ bus[idx] = {"write", "poll"}
                            /\ Bit(adc.config, 15) = 1
          /\ \A c \in Channels :
                /\ "conv" \in bus[c] => bus[c] = {"write", "poll", "conv"}
                /\ (inCall /\ c < idx) => finished(c)
                /\ (inCall /\ c > idx) => bus[c] = {})
    /\ [][C11_BusStep]_vars

\* Channel 1 is about to be read after three polls found it not ready,
\* channel 0 having been read before it.
C11_Witness ==
    /\ pc = "conv" /\ idx = 1 /\ polls = 3
    /\ bus[0] = {"write", "poll", "conv"}
    /\ bus[1] = {"write", "poll"}

\* The word the two bytes on the wire make up, high byte first.
wireWord(w) == w[1] * 2^8 + w[2]

\* The step of readAdcI that writes the configuration for channel idx, as
\* against the mirror it was called with.
C12_WriteStep ==
    (pc = "chan" /\ bus'[idx] # bus[idx]) =>
        /\ wire' \in (0 .. 255) \X (0 .. 255)
        /\ Bit(wireWord(wire'), 15) = 1
        /\ Field(wireWord(wire'), 12, 3) = 4 + idx
        /\ Field(wireWord(wire'), 0, 12) = Field(adc.config, 0, 12)

\* C12: for every channel 0..3 and every mirrored configuration, the word
\* written to start a conversion has bit 15 set, mux (bits 14-12) = 4 + the
\* channel, and bits 11-0 those of the mirror at the time of the call.
C12_ConversionWord == [][C12_WriteStep]_vars

\* The write for channel 1 (not acknowledged, so the mirror is still what
\* it was): the mirror had mux 2, gain 5, and bit 15 set.
C12_Witness ==
    /\ pc = "ret" /\ err = 2 /\ idx = 1
    /\ adc.config = 2^15 + 2 * 2^12 + 5 * 2^9 + 3
    /\ wire = wireBytes(2^15 + 5 * 2^12 + 5 * 2^9 + 3)

\* The conversion read that fails: readAdc returns the error with the
\* channel as it was.
C14_FailedReadStep ==
    (pc = "conv" /\ ~(pc' = "chan" \/ (pc' = "ret" /\ err' = 0))) =>
        /\ pc' = "ret" /\ err' # 0 /\ idx' = idx
        /\ adc'.raw[idx] = adc.raw[idx] /\ adc'.cur[idx] = adc.cur[idx]
        /\ rx' = rx

\* C14: if the conversion-register select is not acknowledged, or fewer than
\* 2 bytes are available after the request, the acquisition returns a
\* nonzero error and the channel's raw sample and stabilized output keep
\* their previous values.
C14_FailedRead ==
    /\ []((pc = "ret" /\ err # 0 /\ "conv" \in bus[idx]) => sameSample(idx))
    /\ [][C14_FailedReadStep]_vars

\* The conversion read of channel 1 failed in a call that channel 1 entered
\* with a sample and an output of earlier cycles.
C14_Witness ==
    /\ pc = "ret" /\ err # 0 /\ idx = 1 /\ "conv" \in bus[1]
    /\ adc.raw[1] = 100 /\ adc.cur[1] = 96

\* The 16-bit word first*256 + second read as two's complement.
signedWord(b) ==
    IF b[1] >= 128 THEN (b[1] - 256) * 256 + b[2] ELSE b[1] * 256 + b[2]

\* The conversion read that delivers its two bytes: the sample of the
\* channel is the signed word they make up.
C13_ReadStep ==
    (pc = "conv" /\ (pc' = "chan" \/ (pc' = "ret" /\ err' = 0))) =>
        /\ rx' \in Bytes \X Bytes
        /\ adc'.raw[idx] = signedWord(rx')

\* C13: for every byte pair (first, second) of 0..255 the conversion read
\* delivers, the raw sample stored is the word first*256 + second read as
\* signed two's complement, the first byte being the most significant.
C13_BigEndianSigned == [][C13_ReadStep]_vars

\* The bytes 0x80, 0x01 were read into channel 0: -32767.
C13_Witness ==
    /\ pc = "chan" /\ idx = 1 /\ rx = <<128, 1>>
    /\ adc.raw[0] = -32767

---------------------------------------------------------------------------
(* Claims about the configuration word, checked under CodecSpec.           *)

\* The sections humanConfigz takes a word apart into: the flag of bit 15,
\* then mux, gain, mode, dataRate, comparatorMode, polarity, latch, queue.
decode(w) == humanConfigz(w, noText).fields

\* The fields f packed at the bit ranges 14-12, 11-9, 8, 7-5, 4, 3, 2, 1-0;
\* f[1], the flag of bit 15, is left out.
pack(f) ==
    f[2] * 2^12 + f[3] * 2^9 + f[4] * 2^8 + f[5] * 2^5
        + f[6] * 2^4 + f[7] * 2^3 + f[8] * 2^2 + f[9]

\* C17: packing field values at the bit ranges mux 14-12, gain 11-9, mode
\* 8, dataRate 7-5, comparatorMode 4, polarity 3, latch 2, queue 1-0 and
\* taking the same ranges out again returns every field unchanged, for all
\* field combinations; bit 15 stands apart: the mirror stored after a write
\* and the read-back comparison take the low 15 bits only.
C17_RoundTrip ==
    /\ pc = "human" =>
        LET f == decode(adc.config) IN
        /\ Len(f) = 9
        /\ f[1] = Bit(adc.config, 15)
        /\ f[2] \in 0 .. 7 /\ f[3] \in 0 .. 7 /\ f[4] \in 0 .. 1
        /\ f[5] \in 0 .. 7 /\ f[6] \in 0 .. 1 /\ f[7] \in 0 .. 1
        /\ f[8] \in 0 .. 1 /\ f[9] \in 0 .. 3
        /\ pack(f) = adc.config % 2^15
        /\ decode(pack(f)) = [f EXCEPT ![1] = 0]
        /\ decode(pack(f) + 2^15) = [f EXCEPT ![1] = 1]
    /\ pc = "written" =>
        /\ wire \in Bytes \X Bytes
        /\ IF err \in WireErrors
           THEN adc.config = wireWord(wire)
           ELSE /\ adc.config = wireWord(wire) % 2^15
                /\ dev = adc.config
                /\ \A rdy \in {0, 1} : ~mismatch(wireWord(wire), rdy * 2^15 + dev)

\* The word with mux 5, gain 2, mode 1, dataRate 4, comparatorMode 1,
\* polarity 0, latch 1, queue 2 and bit 15 set has been rendered.
C17_Witness ==
    /\ pc = "human"
    /\ adc.config = 2^15 + 5 * 2^12 + 2 * 2^9 + 2^8 + 4 * 2^5 + 2^4 + 2^2 + 2
    /\ decode(adc.config) = <<1, 5, 2, 1, 4, 1, 0, 1, 2>>
    /\ buf[0] = "I" /\ buf[2] = "A"

\* The characters of q before its first NUL.
RECURSIVE text(_)
text(q) == IF q = <<>> \/ Head(q) = NUL THEN <<>> ELSE <<Head(q)>> \o text(Tail(q))

\* The n characters of b from index k on.
slice(b, k, n) == [j \in 1 .. n |-> b[k + j - 1]]

\* The data rates of the ADS1115 by code, as the specification lists them.
RateNames ==
    << <<"8">>, <<"1", "6">>, <<"3", "2">>, <<"6", "4">>, <<"1", "2", "8">>,
       <<"2", "5", "0">>, <<"4", "7", "5">>, <<"8", "6", "0">> >>

\* C18: for every 16-bit configuration word the rendering has, for the
\* dataRate field (bits 7-5), the token "8", "16", "32", "64", "128", "250",
\* "475", "860" for the codes 0..7.
C18_RateToken ==
    pc = "human" =>
        text(slice(buf, 12, 3)) = RateNames[Field(adc.config, 5, 3) + 1]

\* C19: for every 16-bit configuration word the rendering is a string with
\* no NUL before its final terminator (the text after the dataRate token is
\* not cut off), the string with its terminator fits the 26-byte buffer,
\* and no write index is outside 0..25.
C19_WholeText ==
    pc = "human" =>
        /\ wrote \subseteq 0 .. (BufSize - 1)
        /\ \E n \in 0 .. (BufSize - 1) :
             /\ buf[n] = NUL
             /\ n \in wrote
             /\ \A k \in wrote : k <= n
             /\ \A k \in 0 .. (n - 1) : buf[k] # NUL

\* The three comparator flags as rendered from their bits.
flagsShown(b, w) ==
    /\ b[16] = (IF Bit(w, 4) = 1 THEN "W" ELSE "T")
    /\ b[18] = (IF Bit(w, 3) = 1 THEN "H" ELSE "L")
    /\ b[20] = (IF Bit(w, 2) = 1 THEN "L" ELSE "N")

\* The characters before index n are those of the rendering of the word
\* with its queue field 0, where nothing is blanked.
asRendered(b, w, n) ==
    LET plain == humanConfigz(w - Field(w, 0, 2), noText).buf
    IN \A k \in 0 .. (n - 1) : b[k] = plain[k]

\* The queue token of the values 0..2, nothing blanked.
queueShown(b, w) ==
    /\ slice(b, 22, 2) = <<"Q", <<"1", "2", "4">>[Field(w, 0, 2) + 1]>>
    /\ flagsShown(b, w)
    /\ asRendered(b, w, 22)

\* C20 as stated: when the queue field (bits 1-0) is 3 the rendering emits
\* "DD" and blanks exactly the two tokens before it, polarity and latch; the
\* comparatorMode token (T/W) and every earlier token are left as rendered.
\* For queue 0..2 nothing is blanked and the token is Q1, Q2, Q4.
C20_BlanksTwo ==
    pc = "human" =>
        IF Field(adc.config, 0, 2) = 3
        THEN /\ slice(buf, 22, 2) = <<"D", "D">>
             /\ buf[18] = " " /\ buf[20] = " "
             /\ asRendered(buf, adc.config, 18)
        ELSE queueShown(buf, adc.config)

\* C20 as the code has it: when the queue field is 3 the rendering emits
\* "DD" and blanks the six characters before it, the three tokens
\* comparatorMode, polarity and latch; the tokens before them (bit 15, mux,
\* gain, mode, dataRate) are left as rendered. For queue 0..2 nothing is
\* blanked and the token is Q1, Q2, Q4.
C20_BlanksThree ==
    pc = "human" =>
        IF Field(adc.config, 0, 2) = 3
        THEN /\ slice(buf, 22, 2) = <<"D", "D">>
             /\ \A k \in 16 .. 21 : buf[k] = " "
             /\ asRendered(buf, adc.config, 16)
        ELSE queueShown(buf, adc.config)

\* A word with the comparator disabled and its mode bit set: the W is
\* blanked with the two flags after it.
C20_Witness ==
    /\ pc = "human"
    /\ Field(adc.config, 0, 2) = 3 /\ Bit(adc.config, 4) = 1
    /\ slice(buf, 16, 8) = <<" ", " ", " ", " ", " ", " ", "D", "D">>
    /\ buf[14] # " "

\* The full-scale ranges by gain code, as the specification lists them.
GainNames ==
    << <<"6", ".", "1">>, <<"4", ".", "0">>, <<"2", ".", "0">>, <<"1", ".", "0">>,
       <<"0", ".", "5">>, <<"0", ".", "2">>, <<"0", ".", "2">>, <<"0", ".", "2">> >>

\* C21: for every 16-bit configuration word the rendering has, for the gain
\* field (bits 11-9), the token "6.1", "4.0", "2.0", "1.0", "0.5", "0.2",
\* "0.2", "0.2" for the codes 0..7.
C21_GainToken ==
    pc = "human" =>
        /\ slice(buf, 6, 3) = GainNames[Field(adc.config, 9, 3) + 1]
        /\ buf[5] = " " /\ buf[9] = " "

\* A word of gain code 4 has been rendered.
C21_Witness ==
    /\ pc = "human" /\ Field(adc.config, 9, 3) = 4
    /\ slice(buf, 6, 3) = <<"0", ".", "5">>

\* The mux token of the field value v, as the specification describes it.
muxShown(v) ==
    CASE v >= 4 -> <<"A", digit(v - 4), "G">>
      [] v >= 1 -> <<"D", digit(v - 1), "3">>
      [] OTHER -> <<"D", "0", "1">>

\* C23: for every 16-bit configuration word the mux field v (bits 14-12) is
\* rendered as 'A', the digit v - 4, 'G' for v in 4..7, as 'D', the digit
\* v - 1, '3' for v in 1..3 and as "D01" for v = 0, and the digit is one of
\* '0'..'3'.
C23_MuxToken ==
    pc = "human" =>
        /\ slice(buf, 2, 3) = muxShown(Field(adc.config, 12, 3))
        /\ buf[3] \in {"0", "1", "2", "3"}
        /\ buf[1] = " " /\ buf[5] = " "

\* A differential pair other than the default one has been rendered.
C23_Witness ==
    /\ pc = "human" /\ Field(adc.config, 12, 3) = 3
    /\ slice(buf, 2, 3) = <<"D", "2", "3">>

\* The characters of q that are not blanks.
RECURSIVE unspaced(_)
unspaced(q) ==
    IF q = <<>> THEN <<>>
    ELSE (IF Head(q) = " " THEN <<>> ELSE <<Head(q)>>) \o unspaced(Tail(q))

\* The number a sequence of '0' and '1' denotes, most significant first.
RECURSIVE binary(_)
binary(q) ==
    IF q = <<>> THEN 0
    ELSE 2 * binary(SubSeq(q, 1, Len(q) - 1)) + (IF q[Len(q)] = "1" THEN 1 ELSE 0)

\* The indices of the blanks between nine groups of 1, 3, 3, 1, 3, 1, 1, 1
\* and 2 characters.
GroupBlanks == {1, 5, 9, 11, 15, 17, 19, 21}

\* C22: for every 16-bit configuration word the bit rendering is 24
\* characters and a terminator inside the 26-byte buffer: the 16 bits, most
\* significant first, as '0' and '1', in nine groups of 1, 3, 3, 1, 3, 1, 1,
\* 1 and 2 separated by single blanks; without the blanks it is the binary
\* expansion of the word, so the word is recovered from the string and
\* distinct words give distinct strings.
C22_BitText ==
    pc = "bits" =>
        LET s == text(slice(bits, 0, BufSize)) IN
        /\ Len(s) = 24 /\ bits[24] = NUL
        /\ \A k \in 0 .. 23 :
             IF k \in GroupBlanks THEN bits[k] = " " ELSE bits[k] \in {"0", "1"}
        /\ Len(unspaced(s)) = 16
        /\ binary(unspaced(s)) = adc.config

\* A word with bits set in several groups has been rendered.
C22_Witness ==
    /\ pc = "bits" /\ adc.config = 963
    /\ text(slice(bits, 0, BufSize)) =
         <<"0", " ", "0", "0", "0", " ", "0", "0", "1", " ", "1", " ",
           "1", "1", "0", " ", "0", " ", "0", " ", "0", " ", "1", "1">>

---------------------------------------------------------------------------
(* Claims about the filter switched off, checked under OffSpec.            *)

\* C26: with window size 0 both offsets are 0 and the step returns the raw
\* sample for every anchor: the output equals the input after every step.
C26_OffTracks ==
    /\ WindowL(0) = 0 /\ WindowH(0) = 0
    /\ pc = "filtered" => adc.cur[idx] = adc.raw[idx]

\* The anchor has followed the sample down across the whole signed range.
C26_Witness ==
    /\ pc = "filtered"
    /\ entry.cur[idx] = INT16_MAX /\ entry.raw[idx] = INT16_MIN
    /\ adc.cur[idx] = INT16_MIN

---------------------------------------------------------------------------
(* Claims about the entry points, checked under NullSpec.                  *)

EntryPoints ==
    {"readConfig", "writeConfig", "initAdc", "readAdcI", "readAdc",
     "initMatrix", "scanMatrix"}

\* A step in which fn returned at its NULL check, another entry point (or
\* none) having been the last to do so.
nullReturn(fn) == nulled' = fn /\ nulled # fn

C24_NullStep ==
    \A fn \in EntryPoints :
        nullReturn(fn) =>
            /\ err' # 0
            /\ wire' = wire /\ rx' = rx /\ bus' = bus /\ dev' = dev
            /\ wline' = wline
            /\ adc' = adc /\ matrix_state' = matrix_state
            /\ events' = events /\ changed' = changed

\* C24: each of readConfig, writeConfig, initAdc, readAdcI, readAdc,
\* initMatrix and scanMatrix, called with a NULL device or pin object,
\* returns a nonzero error, and the call makes no bus or GPIO operation,
\* changes no stored state and emits no event.
C24_NullRefused == [][C24_NullStep]_vars

\* scanMatrix has returned 1 on NULL pins, with a switch closed that a scan
\* would report and the stored levels as initMatrix left them.
C24_Witness ==
    /\ nulled = "scanMatrix" /\ err = 1
    /\ closed # {} /\ events = <<>>
    /\ matrix_state = [c \in Codes |-> HIGH]

---------------------------------------------------------------------------
(* Claims about the fixed configuration, checked under AdcSpec.            *)

\* The last configuration write was a conversion request (readAdcI sets bit
\* 15 in its word; initAdc's word has it clear).
conversionRequested == wire # <<>> /\ Bit(wireWord(wire), 15) = 1

\* C32: every configuration word written to start a conversion carries the
\* gain, mode, data-rate and comparator fields chosen at start-up (gain code
\* 1, single-shot, rate code 6, comparator queue 3), after any sequence of
\* successful and failed bus transactions.
C32_FixedFields ==
    conversionRequested =>
        LET w == wireWord(wire) IN
        /\ Field(w, 9, 3) = 1
        /\ Bit(w, 8) = 1
        /\ Field(w, 5, 3) = 6
        /\ Field(w, 0, 5) = Field(startupConfig, 0, 5)

\* The step in which readAdcI wrote its word: the acquisition goes on to
\* polling exactly when the write was acknowledged. The step in which
\* setup() called initAdc: the value it received is 0 exactly when the
\* start-up configuration was written.
C33_WriteStep ==
    /\ (pc = "chan" /\ bus' # bus) =>
          ("write" \in bus'[clampIdx(idx)] <=> pc' = "poll")
    /\ (pc = "setup" /\ pc' = "idle") =>
          (err' = 0 <=> adc'.config = startupConfig)

\* C33: writeConfig returns 0 exactly when the bus acknowledged the
\* configuration write and a nonzero error otherwise, so the acquisition
\* proceeds to polling if and only if the write succeeded, and initAdc
\* tells setup() whether the start-up configuration was written.
C33_ReturnTellsAck == [][C33_WriteStep]_vars

---------------------------------------------------------------------------
(* Claims about the channel index, checked under IndexSpec.                *)

\* The low two bits of the index readAdcI was called with.
lowTwoBits == 2 * Bit(idx, 1) + Bit(idx, 0)

\* C35: for every 8-bit index passed to readAdcI, the channel selected,
\* mask-tested and stored is the index reduced to its low two bits: it is
\* within 0..3, no other channel is put on the bus or has its raw sample
\* touched, a masked channel returns 0 without bus traffic, the conversion
\* requested has that channel in its mux field, the sample read lands in
\* that element of raw, and an error is returned only after bus traffic
\* (an index above 3 is not rejected).
C35_LowTwoBits ==
    LET ch == lowTwoBits IN
    /\ ch \in Channels
    /\ DOMAIN adc.raw = Channels
    /\ \A c \in Channels \ {ch} : bus[c] = {} /\ adc.raw[c] = entry.raw[c]
    /\ (pc # "chan" /\ Bit(adc.mask, ch) = 0) =>
           pc = "ret" /\ err = 0 /\ bus = noBus
    /\ (pc # "chan" /\ Bit(adc.mask, ch) = 1) =>
           /\ bus[ch] \cap {"write", "nack"} # {}
           /\ Field(wireWord(wire), 12, 3) = 4 + ch
    /\ (pc = "ret" /\ err = 0 /\ "conv" \in bus[ch]) =>
           adc.raw[ch] = assemble(rx[1], rx[2])
    /\ (pc = "ret" /\ err # 0) => bus[ch] # {}

\* A call with an index above 3 whose low two bits are not 3 has stored
\* the sample 100 and returned 0.
C35_Witness ==
    /\ idx > 3
    /\ lowTwoBits # 3
    /\ pc = "ret"
    /\ err = 0
    /\ "conv" \in bus[lowTwoBits]
    /\ adc.raw[lowTwoBits] = 100

---------------------------------------------------------------------------
(* Claims about start-up, checked under SetupSpec.                         *)

\* C34: no matrix scan is performed before initMatrix has configured the
\* row and column pins and set every stored level to released, on every
\* path through setup(), the one on which ADC initialisation fails
\* included: the first scan finds the pins in matrix mode and every stored
\* level HIGH.
C34_InitBeforeScan ==
    pc = "scanned" =>
        /\ pinmode = "matrix"
        /\ before = [c \in Codes |-> HIGH]

---------------------------------------------------------------------------
(* Claims about the permutation table, checked under TableSpec.            *)

\* Every code is in 0 .. rows * columns - 1 and no two positions share one.
wellFormed(tbl) ==
    /\ \A p \in Positions : tbl[p[1] + 1][p[2] + 1] \in Codes
    /\ \A p, q \in Positions :
         tbl[p[1] + 1][p[2] + 1] = tbl[q[1] + 1][q[2] + 1] => p = q

\* C25: a scan given a malformed permutation table returns an error, emits
\* no event and changes no stored level; a scan given a well-formed one
\* returns 0.
C25_TableChecked ==
    pc = "scanned" =>
        IF wellFormed(table)
        THEN err = 0
        ELSE err # 0 /\ events = <<>> /\ matrix_state = before

---------------------------------------------------------------------------
(* Claims about loop(), checked under LoopSpec.                            *)

\* How often stage s occurs in the trace q.
RECURSIVE count(_, _)
count(q, s) ==
    IF q = <<>> THEN 0
    ELSE (IF Head(q) = s THEN 1 ELSE 0) + count(Tail(q), s)

afterReadAdc == pc \in {"ret", "axes", "scan", "report"}

\* What loop() does once readAdc has returned: on an error one configuration
\* read, at once; then nothing on the bus until loop() is called again.
C15_AfterErrorStep ==
    /\ (pc = "ret" /\ err # 0) =>
          /\ cycle' = Append(cycle, "readConfig")
          /\ pc' \in {"idle", "axes"}
    /\ (pc = "ret" /\ err = 0) => cycle' = cycle
    /\ afterReadAdc =>
          /\ bus' = bus /\ wire' = wire /\ rx' = rx /\ dev' = dev
          /\ adc'.raw = adc.raw /\ adc'.cur = adc.cur
    /\ ((bus' # bus /\ bus' # noBus) \/ wire' # wire \/ rx' # rx) =>
          /\ inCall
          /\ cycle' = <<"readAdc">> /\ cycle = <<"readAdc">>

\* C15: when the acquisition stage of a cycle returns an error, loop()
\* issues exactly one configuration read in that cycle and attempts no
\* conversion again (no configuration write, no conversion read) before the
\* next cycle begins.
C15_OneDiagnosticRead ==
    /\ [](/\ count(cycle, "readConfig") <= 1
          /\ count(cycle, "readAdc") <= 1
          /\ count(cycle, "readConfig") = 1 =>
                Len(cycle) >= 2 /\ cycle[1] = "readAdc" /\ cycle[2] = "readConfig")
    /\ [][C15_AfterErrorStep]_vars

\* A cycle in which the write for channel 2 was not acknowledged: one
\* configuration read, and the cycle went on to the report.
C15_Witness ==
    /\ pc = "report" /\ bus[2] = {"nack"}
    /\ cycle = <<"readAdc", "readConfig", "setAxes", "scanMatrix">>

\* C16: every cycle runs the ADC acquisition, then the matrix scan, then
\* the report step, in this order, and every cycle that starts reaches the
\* scan and the report step whatever the ADC stage came to.
C16_EveryCycleComplete ==
    /\ \A m, n \in DOMAIN cycle :
          /\ (cycle[m] = "readAdc" /\ cycle[n] = "scanMatrix") => m < n
          /\ (cycle[m] = "scanMatrix" /\ cycle[n] = "report") => m < n
    /\ (pc = "idle" /\ cycle # <<>>) =>
          /\ count(cycle, "scanMatrix") = 1
          /\ count(cycle, "report") = 1

\* The cycle that has just ended scanned the matrix.
scannedCycle == pc = "idle" /\ count(cycle, "scanMatrix") = 1

\* C30: whenever a scan emits at least one event, sendState is called later
\* in the same cycle, the report carrying the new state of every button of
\* an event, and changed is false when the cycle ends.
C30_EventsSent ==
    (scannedCycle /\ events # <<>>) =>
        /\ \E m, n \in DOMAIN cycle :
              cycle[m] = "scanMatrix" /\ cycle[n] = "sendState" /\ m < n
        /\ \A k \in DOMAIN events :
              joystick.sent[events[k][1]] = IF events[k][2] = LOW THEN 1 ELSE 0
        /\ changed = FALSE

\* A press of code 4 alone has been reported in a cycle that was not due
\* for the periodic update.
C30_Witness ==
    /\ scannedCycle /\ events = <<<<4, LOW>>>>
    /\ counter # COLD_UPDATE_N - 1
    /\ joystick.sent[4] = 1

\* A cycle has just ended that began with the counter at 0: the first
\* cycle and the cycles in which a cold update is due. The report step
\* moves the counter from 0 to COLD_UPDATE_N - 1; a cycle without it
\* leaves the counter as it was.
coldCycle ==
    /\ pc = "idle"
    /\ cycle # <<>>
    /\ counter = IF count(cycle, "report") = 0 THEN 0 ELSE COLD_UPDATE_N - 1

\* C31: whatever changes, a report is sent in the first cycle and in
\* every cycle that begins with the counter at 0 (so at least once in every
\* COLD_UPDATE_N consecutive cycles), also while the ADC bus is failing;
\* and the counter stays within 0 .. COLD_UPDATE_N - 1.
C31_ColdUpdates ==
    /\ counter \in 0 .. (COLD_UPDATE_N - 1)
    /\ coldCycle => count(cycle, "sendState") = 1

\* C29: whenever the filtered output of an axis differs from the value it
\* had in the previous cycle, sendState is called in that same cycle.
C29_AxisChangeSent ==
    (pc = "idle" /\ cycle # <<>>
        /\ \E c \in Channels : adc.cur[c] # entry.cur[c])
    => count(cycle, "sendState") >= 1

---------------------------------------------------------------------------
(* Claims about the filter, checked under FilterSpec.                      *)

\* The step as the specification words it, on the signed values, MIN and MAX
\* being the bounds of int16_t.
SignedStep(lo, hi, a, r) ==
    IF a > INT16_MIN - lo /\ r < a + lo
    THEN r - lo
    ELSE IF a < INT16_MAX - hi /\ r > a + hi
         THEN r - hi
         ELSE a

\* C1: for every anchor A and sample R of the signed 16-bit range, with
\* low = -3 and high = 4, one filter step returns R-low when A > MIN-low and
\* R < A+low, otherwise R-high when A < MAX-high and R > A+high, otherwise A.
C1_StepIsSignedStep ==
    pc = "filtered" =>
        adc.cur[idx] = SignedStep(-3, 4, entry.cur[idx], entry.raw[idx])

\* C27: after every filter step the new anchor A' and the sample R just
\* consumed, as the signed values stored, satisfy A' + low <= R <= A' + high
\* in unbounded arithmetic: the window contains the latest reading.
C27_WindowHoldsSample ==
    pc = "filtered" =>
        /\ adc.cur[idx] + WINDOW_L <= adc.raw[idx]
        /\ adc.raw[idx] <= adc.cur[idx] + WINDOW_H

\* C9: with window size 3 and the anchor at 0, feeding 100 moves the anchor
\* to 96, then feeding 99 leaves it at 96, then feeding 50 moves it to 53.
C9_Example ==
    /\ WINDOW_L = -3 /\ WINDOW_H = 4
    /\ pc = "filtered" =>
        /\ (entry.cur[idx] = 0 /\ entry.raw[idx] = 100) => adc.cur[idx] = 96
        /\ (entry.cur[idx] = 96 /\ entry.raw[idx] = 99) => adc.cur[idx] = 96
        /\ (entry.cur[idx] = 96 /\ entry.raw[idx] = 50) => adc.cur[idx] = 53

\* The last step of the example has been taken: from 96, fed 50, now 53.
C9_Witness ==
    /\ pc = "filtered"
    /\ entry.cur[idx] = 96 /\ entry.raw[idx] = 50 /\ adc.cur[idx] = 53

\* C10: the step is idempotent in its input: after a step with R, another
\* step with the same R returns the same anchor.
C10_Idempotent ==
    pc = "filtered" => filterStep(adc, idx).cur[idx] = adc.cur[idx]

\* A step that moved the anchor, so that the second step starts elsewhere.
C10_Witness ==
    /\ pc = "filtered"
    /\ adc.cur[idx] # entry.cur[idx]
    /\ adc.raw[idx] < 0

---------------------------------------------------------------------------
(* Claims about the matrix scanner, checked under MatrixSpec.              *)

\* The place of a position in the row-major order of the scan.
order(p) == p[1] * MAT_W + p[2]
posOf(code) == CHOOSE p \in Positions : codeAt(p[1], p[2]) = code

\* C7: in one scan an event (code, level) is emitted for a position if and
\* only if the level read differs from the stored level of its code, and the
\* stored level is set to the level read; the code table being a bijection,
\* after the scan every stored level is the level seen at its position and
\* every code has produced at most one event, the events coming in
\* row-major order.
C7_EventIffChange ==
    pc = "scanned" =>
        /\ \A p \in Positions :
             LET code == codeAt(p[1], p[2]) IN
             /\ (seen[p] # before[code]) <=>
                  (\E n \in DOMAIN events : events[n] = <<code, seen[p]>>)
             /\ matrix_state[code] = seen[p]
        /\ \A m, n \in DOMAIN events :
             /\ events[m][1] = events[n][1] => m = n
             /\ m < n => order(posOf(events[m][1])) < order(posOf(events[n][1]))
        /\ \A n \in DOMAIN events :
             before[events[n][1]] # events[n][2]

\* A scan that emitted two events, a press and a release.
C7_Witness ==
    /\ pc = "scanned"
    /\ Len(events) = 2
    /\ events[1][2] # events[2][2]

\* A scan that follows, with no switch operated in between, the scan that
\* reported the press of code 4 emits nothing.
C8_FollowingScan ==
    (pc = "scanned" /\ pc' = "scanned" /\ closed = {posOf(4)}
        /\ events = <<<<4, LOW>>>>) => events' = <<>>

\* C8: from the state initMatrix establishes (every stored level released)
\* with every switch open, closing only the switch of code 4 makes the next
\* scan emit exactly the event (4, LOW), and a scan following it with no
\* physical change emits no event.
C8_OnePress ==
    /\ []((pc = "scanned" /\ closed = {posOf(4)}
             /\ before = [c \in Codes |-> HIGH]) => events = <<<<4, LOW>>>>)
    /\ [][C8_FollowingScan]_vars

\* C28: whenever a column is read during a scan, the row being strobed is
\* LOW and every other row line is HIGH, in every scan from the first after
\* initMatrix; when a scan has returned all row lines are HIGH.
C28_OneRowActive ==
    pc = "scanned" =>
        /\ \A p \in Positions : \A r \in Rows :
             driven[p][r] = IF r = p[1] THEN LOW ELSE HIGH
        /\ \A r \in Rows : wline[r] = HIGH

=============================================================================
